---- MODULE Spec2Model ----
(***************************************************************************)
(* jarvis-auth-client: the app-to-app authentication flow of               *)
(* jarvis_auth_client/fastapi.py (module state, init, shutdown, the        *)
(* credential validator and the require_app_auth dependency) as a state    *)
(* machine.  Coroutines are cut at their suspension points: a request      *)
(* suspends at `await client.get(...)`, a shutdown at                      *)
(* `await _http_client.aclose()`.  Everything between two suspension       *)
(* points runs as one step of the event loop.                              *)
(***************************************************************************)
EXTENDS Integers, Sequences, FiniteSets, TLC

(***************************************************************************)
(* Bounds of the model.                                                    *)
(***************************************************************************)
\* Number of inbound requests handled by the dependency.
NumRequests == 2
\* Number of calls of shutdown().
NumShutdowns == 2
\* Last instant of the clock (seconds).
MaxTime == 2

Requests == 1..NumRequests
ShutdownCalls == 1..NumShutdowns
\* A request creates at most one httpx.AsyncClient, so these ids suffice.
ClientIds == 1..NumRequests

(***************************************************************************)
(* Python values.                                                          *)
(***************************************************************************)
\* Python's None, for values of type `str | None`.
None == "<None>"
\* `not x` for x: str | None.
Falsy(x) == x = None \/ x = ""
\* `a or b` for a, b: str | None.
PyOr(a, b) == IF Falsy(a) THEN b ELSE a
\* The empty slot of `_http_client` (None), and of a request's local `client`.
NoClient == 0

\* HTTP status codes of fastapi.status / of the authority's responses.
HTTP_200_OK == 200
HTTP_401_UNAUTHORIZED == 401
HTTP_403_FORBIDDEN == 403
HTTP_500_INTERNAL_SERVER_ERROR == 500

(***************************************************************************)
(* Inputs.                                                                 *)
(***************************************************************************)
\* Values of the X-Jarvis-App-Id / X-Jarvis-App-Key headers (None: absent).
AppIdHeaders == {None, "", "app-1"}
AppKeyHeaders == {None, "key-1", "key-2"}
\* The argument auth_base_url of init().
UrlArgs == {None, "", "http://auth"}
\* The environment variable JARVIS_AUTH_BASE_URL (None: unset).
EnvUrls == {None, "http://auth"}
\* The argument cache_ttl of init() (seconds).
DefaultCacheTtl == 60
CacheTtls == {1, DefaultCacheTtl}

\* Status codes the authority answers with.
StatusCodes == {HTTP_200_OK, HTTP_401_UNAUTHORIZED, HTTP_403_FORBIDDEN,
                HTTP_500_INTERNAL_SERVER_ERROR}
\* Response bodies: a JSON object (a key that is missing reads as None with
\* data.get), a JSON value that is no object, and text that is no JSON.
JsonObjects == {[json |-> "object", app_id |-> "app-1", name |-> "svc-one"],
                [json |-> "object", app_id |-> "app-1", name |-> None],
                [json |-> "object", app_id |-> None, name |-> None]}
NotAnObject == [json |-> "array", app_id |-> None, name |-> None]
NotJson == [json |-> "invalid", app_id |-> None, name |-> None]
Bodies == JsonObjects \cup {NotAnObject, NotJson}
\* httpx.RequestError subclasses raised by client.get on a transport failure
\* (connection refused, DNS failure, timeout), with str(e).
NoError == [type |-> None, message |-> None]
TransportErrors == {[type |-> "ConnectError", message |-> "All connection attempts failed"],
                    [type |-> "ReadTimeout", message |-> ""]}
\* What `await client.get(...)` resumes with.
\* (the body of a response is read only when its status is 200)
Replies == {[kind |-> "response", status_code |-> HTTP_200_OK, body |-> b, exc |-> NoError] :
                b \in Bodies}
           \cup {[kind |-> "response", status_code |-> s, body |-> NotJson, exc |-> NoError] :
                s \in StatusCodes \ {HTTP_200_OK}}
           \cup {[kind |-> "error", status_code |-> 0, body |-> NotJson, exc |-> e] :
                e \in TransportErrors}
\* The context headers of a request, as the dependency's parameters:
\* x_context_user_id is `int | None` (<<>> for None, <<n>> for the integer n),
\* the others are `str | None`.
NoContextHeaders ==
    [x_context_household_id |-> None, x_context_node_id |-> None,
     x_context_user_id |-> <<>>, x_context_household_member_ids |-> None]
ContextHeaders ==
    {NoContextHeaders,
     [x_context_household_id |-> "hh-1", x_context_node_id |-> "node-1",
      x_context_user_id |-> <<42>>, x_context_household_member_ids |-> "1, 2,3"],
     [x_context_household_id |-> "", x_context_node_id |-> None,
      x_context_user_id |-> <<>>, x_context_household_member_ids |-> "1,abc,3"]}

\* X-Context-Household-Member-Ids values with a segment that is no integer.
MalformedMemberIds == {"1,abc,3", "abc", "1,2x", "1.5,2", ",x,", "1 2,3", "1,-", "0x1F"}
\* Every X-Context-Household-Member-Ids value of the inputs.
MemberIdHeaders ==
    {h.x_context_household_member_ids : h \in ContextHeaders}
        \cup MalformedMemberIds \cup {"4,5"}
\* The context headers as they arrive, before FastAPI converts them to the
\* dependency's parameters: X-Context-User-Id is text.
RawContextHeaders ==
    [x_context_household_id : {None}, x_context_node_id : {None},
     x_context_user_id : {None, "42", "abc"},
     x_context_household_member_ids : MalformedMemberIds \cup {None, "4,5"}]

(***************************************************************************)
(* State.                                                                  *)
(***************************************************************************)
VARIABLES
    _auth_base_url,   \* fastapi.py module state: str | None
    _http_client,     \* fastapi.py module state: the shared client or NoClient
    _cache_ttl,       \* fastapi.py module state
    env_url,          \* os.environ["JARVIS_AUTH_BASE_URL"]
    clients,          \* every httpx.AsyncClient: "none" | "open" | "closed"
    req,              \* each request's coroutine: position, locals, outcome
    sd,               \* each shutdown() coroutine's position
    now,              \* the clock
    shutdown_called,  \* history: shutdown() has been called
    _secret_key,      \* client.py module state: str | None
    _algorithm,       \* client.py module state
    call              \* the call of a function of headers.py / client.py observed

vars == <<_auth_base_url, _http_client, _cache_ttl, env_url, clients, req, sd,
          now, shutdown_called, _secret_key, _algorithm, call>>
config_vars == <<_auth_base_url, _cache_ttl, env_url>>
\* The module state of client.py.
client_vars == <<_secret_key, _algorithm>>

\* A request that has not arrived yet.
IdleRequest ==
    [state |-> "idle",
     x_jarvis_app_id |-> None, x_jarvis_app_key |-> None,
     headers |-> NoContextHeaders, \* the context headers
     client |-> NoClient,          \* the local `client` of validate_app_credentials
     created |-> NoClient,         \* the client this request created, if any
     calls |-> 0,                  \* outbound calls issued for this request
     sent |-> <<>>,                \* the outbound request, once issued
     reply |-> <<>>,               \* what client.get resumed with
     validation |-> <<>>,          \* the AppValidationResult returned, if any
     result |-> <<>>,              \* the AppAuthResult returned, if any
     exc |-> <<>>,                 \* the exception raised, if any
     started_at |-> 0, ended_at |-> 0,
     after_shutdown |-> FALSE,     \* history: arrived after a shutdown() call
     fresh |-> FALSE]              \* history: arrived while a validation of the
                                   \* same pair was younger than _cache_ttl

\* A shutdown() call that has not been made yet.  `closing` is history: the
\* client the call found in the slot and closed.
IdleShutdown == [pc |-> "idle", closing |-> NoClient]

\* No call of headers.py / client.py is observed.
NoCall == [fn |-> None]

\* The state of the two modules once they are imported.
InitModules ==
    /\ _auth_base_url = None
    /\ _http_client = NoClient
    /\ _cache_ttl = DefaultCacheTtl
    /\ env_url \in EnvUrls
    /\ clients = [c \in ClientIds |-> "none"]
    /\ req = [r \in Requests |-> IdleRequest]
    /\ sd = [s \in ShutdownCalls |-> IdleShutdown]
    /\ now = 0
    /\ shutdown_called = FALSE
    /\ _secret_key = None
    /\ _algorithm = "HS256"

Init == InitModules /\ call = NoCall

(***************************************************************************)
(* init                                                                    *)
(***************************************************************************)
init(auth_base_url, cache_ttl) ==
    /\ _auth_base_url' = PyOr(auth_base_url, env_url)
    /\ _cache_ttl' = cache_ttl
    /\ UNCHANGED <<_http_client, env_url, clients, req, sd, now, shutdown_called>>
    /\ UNCHANGED <<client_vars, call>>

(***************************************************************************)
(* shutdown                                                                *)
(***************************************************************************)
\* httpx.AsyncClient.aclose(): the client is closed for good.
aclose(c) == [clients EXCEPT ![c] = "closed"]

\* shutdown() up to its suspension in `await _http_client.aclose()`, or to its
\* end when the slot is empty.  aclose() of an open client closes it and
\* suspends while the transport closes; aclose() of a client that is closed
\* already returns without suspending, and shutdown() runs on to its end.
shutdown(s) ==
    /\ sd[s].pc = "idle"
    /\ \A t \in ShutdownCalls : t < s => sd[t].pc # "idle"   \* calls numbered in order
    /\ shutdown_called' = TRUE
    /\ IF _http_client = NoClient
          THEN /\ sd' = [sd EXCEPT ![s] = [pc |-> "done", closing |-> NoClient]]
               /\ UNCHANGED <<_http_client, clients>>
          ELSE IF clients[_http_client] = "closed"
          THEN /\ sd' = [sd EXCEPT ![s] = [pc |-> "done", closing |-> _http_client]]
               /\ _http_client' = NoClient
               /\ UNCHANGED clients
          ELSE /\ clients' = aclose(_http_client)
               /\ sd' = [sd EXCEPT ![s] = [pc |-> "aclose", closing |-> _http_client]]
               /\ UNCHANGED _http_client
    /\ UNCHANGED <<_auth_base_url, _cache_ttl, env_url, req, now>>
    /\ UNCHANGED <<client_vars, call>>

\* Mutant of shutdown_resume: the slot is not cleared.
shutdown_resume_KeepsSlot(s) ==
    /\ sd[s].pc = "aclose"
    /\ sd' = [sd EXCEPT ![s].pc = "done"]
    /\ UNCHANGED <<_auth_base_url, _http_client, _cache_ttl, env_url, clients, req,
                   now, shutdown_called>>
    /\ UNCHANGED <<client_vars, call>>

\* Mutant of shutdown_resume: the URL is reset with the slot.
shutdown_resume_ClearsUrl(s) ==
    /\ sd[s].pc = "aclose"
    /\ _http_client' = NoClient
    /\ _auth_base_url' = None
    /\ sd' = [sd EXCEPT ![s].pc = "done"]
    /\ UNCHANGED <<_cache_ttl, env_url, clients, req, now, shutdown_called>>
    /\ UNCHANGED <<client_vars, call>>

\* shutdown() from the return of aclose() to its end: `_http_client = None`.
shutdown_resume(s) ==
    /\ sd[s].pc = "aclose"
    /\ _http_client' = NoClient
    /\ sd' = [sd EXCEPT ![s].pc = "done"]
    /\ UNCHANGED <<_auth_base_url, _cache_ttl, env_url, clients, req, now,
                   shutdown_called>>
    /\ UNCHANGED <<client_vars, call>>

(***************************************************************************)
(* Header codec (headers.py): parse_household_member_ids.                  *)
(***************************************************************************)
\* The i-th character of a string.
Char(s, i) == SubSeq(s, i, i)
Digits == {"0", "1", "2", "3", "4", "5", "6", "7", "8", "9"}
\* Characters str.strip() removes (those that occur in the inputs).
Whitespace == {" ", "\t"}

\* str.split(sep) for a one-character separator.
RECURSIVE split(_, _)
split(s, sep) ==
    IF \E i \in 1..Len(s) : Char(s, i) = sep
    THEN LET i == CHOOSE k \in 1..Len(s) :
                      /\ Char(s, k) = sep
                      /\ \A j \in 1..(k - 1) : Char(s, j) # sep
         IN <<SubSeq(s, 1, i - 1)>> \o split(SubSeq(s, i + 1, Len(s)), sep)
    ELSE <<s>>

\* str.strip().
RECURSIVE strip(_)
strip(s) ==
    IF Len(s) = 0 THEN s
    ELSE IF Char(s, 1) \in Whitespace THEN strip(SubSeq(s, 2, Len(s)))
    ELSE IF Char(s, Len(s)) \in Whitespace THEN strip(SubSeq(s, 1, Len(s) - 1))
    ELSE s

DigitValue(c) ==
    CASE c = "0" -> 0 [] c = "1" -> 1 [] c = "2" -> 2 [] c = "3" -> 3
      [] c = "4" -> 4 [] c = "5" -> 5 [] c = "6" -> 6 [] c = "7" -> 7
      [] c = "8" -> 8 [] c = "9" -> 9

\* The decimal literals int() accepts: an optional sign, then digits, single
\* underscores allowed between digits (surrounding whitespace is stripped).
IsDigitString(t) ==
    /\ Len(t) > 0
    /\ Char(t, 1) \in Digits
    /\ Char(t, Len(t)) \in Digits
    /\ \A i \in 1..Len(t) :
          \/ Char(t, i) \in Digits
          \/ Char(t, i) = "_" /\ Char(t, i - 1) \in Digits /\ Char(t, i + 1) \in Digits
Unsigned(s) ==
    LET t == strip(s)
    IN IF Len(t) > 0 /\ Char(t, 1) \in {"+", "-"} THEN SubSeq(t, 2, Len(t)) ELSE t
\* int(s) raises ValueError.
IsIntLiteral(s) == IsDigitString(Unsigned(s))

RECURSIVE DigitsValue(_)
DigitsValue(t) ==
    IF Len(t) = 0 THEN 0
    ELSE IF Char(t, Len(t)) = "_" THEN DigitsValue(SubSeq(t, 1, Len(t) - 1))
    ELSE 10 * DigitsValue(SubSeq(t, 1, Len(t) - 1)) + DigitValue(Char(t, Len(t)))
\* int(s), for a string int() accepts.
int(s) ==
    LET t == strip(s)
    IN IF Len(t) > 0 /\ Char(t, 1) = "-" THEN 0 - DigitsValue(Unsigned(s))
       ELSE DigitsValue(Unsigned(s))

\* Mutant of parse_household_member_ids: a segment that is no integer is skipped.
parse_household_member_ids_SkipsBad(header_value) ==
    IF Falsy(header_value) THEN <<>>
    ELSE LET parts == split(header_value, ",")
             kept == SelectSeq(parts, LAMBDA mid : IsIntLiteral(strip(mid)))
         IN [i \in 1..Len(kept) |-> int(strip(kept[i]))]

\* parse_household_member_ids(header_value).
parse_household_member_ids(header_value) ==
    IF Falsy(header_value) THEN <<>>
    ELSE LET parts == split(header_value, ",")
             kept == SelectSeq(parts, LAMBDA mid : strip(mid) # "")
         IN IF \E i \in 1..Len(kept) : ~IsIntLiteral(strip(kept[i]))
            THEN <<>>                                    \* except ValueError
            ELSE [i \in 1..Len(kept) |-> int(strip(kept[i]))]

\* str(n) for an int: its decimal digits, "-" first when negative.
DigitChars == <<"0", "1", "2", "3", "4", "5", "6", "7", "8", "9">>
RECURSIVE str(_)
str(n) ==
    IF n < 0 THEN "-" \o str(0 - n)
    ELSE IF n < 10 THEN DigitChars[n + 1]
    ELSE str(n \div 10) \o DigitChars[(n % 10) + 1]

\* Mutant of join: the separator is left out.
RECURSIVE join_NoSeparator(_, _)
join_NoSeparator(sep, strs) ==
    IF Len(strs) = 0 THEN ""
    ELSE strs[1] \o join_NoSeparator(sep, Tail(strs))

\* sep.join(strs).
RECURSIVE join(_, _)
join(sep, strs) ==
    IF Len(strs) = 0 THEN ""
    ELSE IF Len(strs) = 1 THEN strs[1]
    ELSE strs[1] \o sep \o join(sep, Tail(strs))

\* build_context_headers(...): the dict returned, a key it leaves out reading
\* as None.  user_id is <<>> for None; household_member_ids is the list, <<>>
\* for None and for [] (both are falsy).
build_context_headers(household_id, node_id, user_id, household_member_ids) ==
    [x_context_household_id |-> IF Falsy(household_id) THEN None ELSE household_id,
     x_context_node_id |-> IF Falsy(node_id) THEN None ELSE node_id,
     x_context_user_id |-> IF user_id = <<>> THEN None ELSE str(user_id[1]),
     x_context_household_member_ids |->
         IF household_member_ids = <<>> THEN None
         ELSE join(",", [i \in 1..Len(household_member_ids) |->
                            str(household_member_ids[i])])]

(***************************************************************************)
(* Models (models.py) and exceptions.                                      *)
(***************************************************************************)
AppValidationResult(valid, app_id, name, error) ==
    [valid |-> valid, app_id |-> app_id, name |-> name, error |-> error]
RequestContext(household_id, node_id, user_id, household_member_ids) ==
    [household_id |-> household_id, node_id |-> node_id, user_id |-> user_id,
     household_member_ids |-> household_member_ids]
AppAuthResult(app, context) == [app |-> app, context |-> context]

HTTPException(status_code, detail) ==
    [type |-> "HTTPException", status_code |-> status_code, detail |-> detail]
\* An exception that is no HTTPException.
Fault(type, message) == [type |-> type, status_code |-> 0, detail |-> message]

\* The dependency returns `result`: AUTHENTICATED.
Return(self, result) == [self EXCEPT !.state = "AUTHENTICATED", !.result = <<result>>]
\* The dependency raises: REJECTED for an HTTPException, FAULT for another exception.
Raise(self, e) ==
    [self EXCEPT !.state = IF e.type = "HTTPException" THEN "REJECTED" ELSE "FAULT",
                 !.exc = <<e>>]

(***************************************************************************)
(* Credential validator (fastapi.py).                                      *)
(***************************************************************************)
\* _get_auth_url(): the URL; it raises ValueError when the URL is falsy.
_get_auth_url == PyOr(_auth_base_url, env_url)
NotInitialized ==
    Fault("ValueError", "jarvis-auth-client not initialized: "
                        \o "call init(auth_base_url=...) or set JARVIS_AUTH_BASE_URL")

\* httpx.AsyncClient(timeout=10.0): a new client, open.
NewClient == CHOOSE c \in ClientIds :
                 clients[c] = "none" /\ \A d \in ClientIds : d < c => clients[d] # "none"
\* _get_client(): the value returned, which is also the slot's value afterwards.
_get_client == IF _http_client = NoClient THEN NewClient ELSE _http_client

\* client.get(...) on a closed client: httpx raises RuntimeError at once.
ClientClosed ==
    Fault("RuntimeError", "Cannot send a request, as the client has been closed.")

\* response.json() / data.get(...) raise when the body is no JSON object.
BodyFault(body) ==
    IF body.json = "invalid"
    THEN Fault("JSONDecodeError", "Expecting value")
    ELSE Fault("AttributeError", "'list' object has no attribute 'get'")

\* Mutant of ValidateRaises: no `except httpx.RequestError`.
ValidateRaises_NoExcept(reply) ==
    \/ reply.kind = "error"
    \/ /\ reply.kind = "response"
       /\ reply.status_code = HTTP_200_OK
       /\ reply.body.json # "object"

\* validate_app_credentials from the return of client.get: does it raise?
ValidateRaises(reply) ==
    /\ reply.kind = "response"
    /\ reply.status_code = HTTP_200_OK
    /\ reply.body.json # "object"

\* Mutant of ValidationOutcome: no branch for 401.
ValidationOutcome_No401(reply) ==
    IF reply.kind = "error"
    THEN AppValidationResult(FALSE, None, None,
                             "Auth service unavailable: " \o reply.exc.message)
    ELSE IF reply.status_code = HTTP_200_OK
    THEN AppValidationResult(TRUE, reply.body.app_id, reply.body.name, None)
    ELSE AppValidationResult(FALSE, None, None,
                             "Auth service error: " \o ToString(reply.status_code))

\* Mutant of ValidationOutcome: the last branch passes no error text.
ValidationOutcome_NoErrorText(reply) ==
    IF reply.kind = "error"
    THEN AppValidationResult(FALSE, None, None,
                             "Auth service unavailable: " \o reply.exc.message)
    ELSE IF reply.status_code = HTTP_200_OK
    THEN AppValidationResult(TRUE, reply.body.app_id, reply.body.name, None)
    ELSE IF reply.status_code = HTTP_401_UNAUTHORIZED
    THEN AppValidationResult(FALSE, None, None, "Invalid app credentials")
    ELSE AppValidationResult(FALSE, None, None, None)

\* validate_app_credentials from the return of client.get: the value returned.
ValidationOutcome(reply) ==
    IF reply.kind = "error"
    THEN AppValidationResult(FALSE, None, None,
                             "Auth service unavailable: " \o reply.exc.message)
    ELSE IF reply.status_code = HTTP_200_OK
    THEN AppValidationResult(TRUE, reply.body.app_id, reply.body.name, None)
    ELSE IF reply.status_code = HTTP_401_UNAUTHORIZED
    THEN AppValidationResult(FALSE, None, None, "Invalid app credentials")
    ELSE AppValidationResult(FALSE, None, None,
                             "Auth service error: " \o ToString(reply.status_code))

(***************************************************************************)
(* Auth dependency (fastapi.py, require_app_auth._dependency).             *)
(***************************************************************************)
\* Mutant of MissingCredentials: the app key is not looked at.
MissingCredentials_IdOnly(x_jarvis_app_id, x_jarvis_app_key) ==
    Falsy(x_jarvis_app_id)

\* `not x_jarvis_app_id or not x_jarvis_app_key`.
MissingCredentials(x_jarvis_app_id, x_jarvis_app_key) ==
    Falsy(x_jarvis_app_id) \/ Falsy(x_jarvis_app_key)

\* Mutant of NotValid: the outcome is not looked at.
NotValid_Never(validation) == FALSE

\* `not validation.valid`.
NotValid(validation) == ~validation.valid

\* parse_household_member_ids on the member-id headers of the inputs, tabulated.
ParsedMemberIds ==
    [v \in MemberIdHeaders |->
        parse_household_member_ids(v)]

\* The context built from the headers.
BuildContext(h) ==
    RequestContext(h.x_context_household_id, h.x_context_node_id,
                   h.x_context_user_id,
                   ParsedMemberIds[h.x_context_household_member_ids])

\* Mutant of RejectionDetail: the outcome's error text is dropped.
RejectionDetail_Generic(validation) == "Invalid app credentials"

\* `validation.error or "Invalid app credentials"`.
RejectionDetail(validation) == PyOr(validation.error, "Invalid app credentials")

\* Mutant of MayStart: a lock held across the outbound call.
MayStart_Serialized(r) ==
    /\ req[r].state = "idle"
    /\ \A q \in Requests : req[q].state # "PENDING"

\* A request may enter the dependency: nothing but its own position decides.
MayStart(r) == req[r].state = "idle"
\* A suspended request may resume as soon as client.get returns.
MayResume(r) == req[r].state = "PENDING"

\* Mutant of UrlMissing: the check is left out.
UrlMissing_Never(url) == FALSE

\* `if not url` of _get_auth_url.
UrlMissing(url) == Falsy(url)

\* History: a validation of the pair has completed less than _cache_ttl ago
\* (with valid = true: the result every reading of "cached" covers).
FreshValidation(app_id, app_key) ==
    \E q \in Requests :
        /\ req[q].validation # <<>>
        /\ req[q].validation[1].valid
        /\ req[q].x_jarvis_app_id = app_id
        /\ req[q].x_jarvis_app_key = app_key
        /\ now - req[q].ended_at < _cache_ttl

\* validate_app_credentials up to its suspension in `await client.get(...)`.
validate_app_credentials(r, self) ==
    LET auth_url == _get_auth_url
    IN IF UrlMissing(auth_url)
       THEN /\ req' = [req EXCEPT ![r] = Raise(self, NotInitialized)]
            /\ UNCHANGED <<_http_client, clients>>
       ELSE LET client == _get_client
                creates == _http_client = NoClient
                opened == IF creates THEN [clients EXCEPT ![client] = "open"]
                          ELSE clients
                held == [self EXCEPT !.client = client,
                                     !.created = IF creates THEN client ELSE NoClient]
            IN /\ _http_client' = client
               /\ clients' = opened
               /\ IF opened[client] = "closed"
                  THEN req' = [req EXCEPT ![r] = Raise(held, ClientClosed)]
                  ELSE req' = [req EXCEPT ![r] =
                          [held EXCEPT !.state = "PENDING",
                                       !.calls = @ + 1,
                                       !.sent = <<[url |-> auth_url \o "/internal/app-ping",
                                                   app_id |-> self.x_jarvis_app_id,
                                                   app_key |-> self.x_jarvis_app_key]>>]]

\* The dependency from its call to its first suspension (or to its end).
_dependency(r, x_jarvis_app_id, x_jarvis_app_key, headers) ==
    /\ MayStart(r)
    /\ \A q \in Requests : q < r => req[q].state # "idle"   \* numbered as they arrive
    /\ LET self == [req[r] EXCEPT !.x_jarvis_app_id = x_jarvis_app_id,
                                  !.x_jarvis_app_key = x_jarvis_app_key,
                                  !.headers = headers,
                                  !.started_at = now, !.ended_at = now,
                                  !.after_shutdown = shutdown_called,
                                  !.fresh = FreshValidation(x_jarvis_app_id,
                                                            x_jarvis_app_key)]
       IN IF MissingCredentials(x_jarvis_app_id, x_jarvis_app_key)
          THEN /\ req' = [req EXCEPT ![r] =
                      Raise(self, HTTPException(HTTP_401_UNAUTHORIZED,
                                                "Missing app credentials"))]
               /\ UNCHANGED <<_http_client, clients>>
          ELSE validate_app_credentials(r, self)
    /\ UNCHANGED <<_auth_base_url, _cache_ttl, env_url, sd, now, shutdown_called>>
    /\ UNCHANGED <<client_vars, call>>

\* `x_context_user_id: int | None = Header(None, ...)`: FastAPI converts the
\* header before it calls the dependency.  A value that is no integer fails the
\* conversion.
InvalidUserId(raw) == raw # None /\ ~IsIntLiteral(raw)
\* The dependency's parameters for the headers received.
Params(raw) ==
    [raw EXCEPT !.x_context_user_id = IF raw.x_context_user_id = None THEN <<>>
                                      ELSE <<int(raw.x_context_user_id)>>]
\* What FastAPI answers when a parameter fails its conversion: 422, and the
\* dependency is not called.
RequestValidationError(raw) ==
    [type |-> "RequestValidationError", status_code |-> 422, detail |-> raw]

\* FastAPI resolves the dependency for a request: it converts the headers to
\* the parameters and calls _dependency, or answers 422.
resolve_dependency(r, x_jarvis_app_id, x_jarvis_app_key, raw) ==
    IF InvalidUserId(raw.x_context_user_id)
    THEN /\ MayStart(r)
         /\ \A q \in Requests : q < r => req[q].state # "idle"
         /\ req' = [req EXCEPT ![r] =
                [@ EXCEPT !.state = "INVALID",
                          !.x_jarvis_app_id = x_jarvis_app_id,
                          !.x_jarvis_app_key = x_jarvis_app_key,
                          !.started_at = now, !.ended_at = now,
                          !.exc = <<RequestValidationError(raw.x_context_user_id)>>]]
         /\ UNCHANGED <<_auth_base_url, _http_client, _cache_ttl, env_url, clients,
                        sd, now, shutdown_called, client_vars, call>>
    ELSE _dependency(r, x_jarvis_app_id, x_jarvis_app_key, Params(raw))

\* The dependency from the return of client.get to its end.
_dependency_resume(r, reply) ==
    /\ MayResume(r)
    /\ LET self == [req[r] EXCEPT !.reply = <<reply>>, !.ended_at = now]
       IN IF ValidateRaises(reply)
          THEN req' = [req EXCEPT ![r] = Raise(self, BodyFault(reply.body))]
          ELSE LET validation == ValidationOutcome(reply)
                   validated == [self EXCEPT !.validation = <<validation>>]
               IN IF NotValid(validation)
                  THEN req' = [req EXCEPT ![r] =
                          Raise(validated,
                                HTTPException(HTTP_401_UNAUTHORIZED,
                                              RejectionDetail(validation)))]
                  ELSE req' = [req EXCEPT ![r] =
                          Return(validated,
                                 AppAuthResult(validation, BuildContext(self.headers)))]
    /\ UNCHANGED <<_auth_base_url, _http_client, _cache_ttl, env_url, clients, sd,
                   now, shutdown_called>>
    /\ UNCHANGED <<client_vars, call>>

(***************************************************************************)
(* The clock, and the specifications.                                      *)
(***************************************************************************)
Tick ==
    /\ now < MaxTime
    /\ now' = now + 1
    /\ UNCHANGED <<_auth_base_url, _http_client, _cache_ttl, env_url, clients, req,
                   sd, shutdown_called>>
    /\ UNCHANGED <<client_vars, call>>

Next ==
    \/ \E u \in UrlArgs : init(u, DefaultCacheTtl)
    \/ \E s \in ShutdownCalls : shutdown(s)
    \/ \E s \in ShutdownCalls : shutdown_resume(s)
    \/ \E r \in Requests, i \in AppIdHeaders, k \in AppKeyHeaders, h \in ContextHeaders :
          _dependency(r, i, k, h)
    \/ \E r \in Requests, reply \in Replies : _dependency_resume(r, reply)

Spec == Init /\ [][Next]_vars

\* The request side of the program with the clock running and cache_ttl chosen
\* at init.
NextClock ==
    \/ \E u \in UrlArgs, t \in CacheTtls : init(u, t)
    \/ \E r \in Requests, i \in AppIdHeaders, k \in AppKeyHeaders :
          _dependency(r, i, k, NoContextHeaders)
    \/ \E r \in Requests, reply \in Replies : _dependency_resume(r, reply)
    \/ Tick
SpecClock == Init /\ [][NextClock]_vars

\* The request side of the program under the event loop's scheduling.  The
\* shared client is built with timeout=10.0, so `await client.get(...)` comes
\* back, with a response or with a timeout error, and the loop then resumes the
\* coroutine: a suspended request does not stay suspended for ever.
NextLive ==
    \/ \E u \in UrlArgs : init(u, DefaultCacheTtl)
    \/ \E r \in Requests, i \in AppIdHeaders, k \in AppKeyHeaders :
          _dependency(r, i, k, NoContextHeaders)
    \/ \E r \in Requests, reply \in Replies : _dependency_resume(r, reply)
SpecLive ==
    /\ Init /\ [][NextLive]_vars
    /\ \A r \in Requests : WF_vars(\E reply \in Replies : _dependency_resume(r, reply))

\* Requests with their context headers as they arrive.
ContextReplies ==
    {reply \in Replies :
        /\ reply.kind = "response"
        /\ \/ reply.status_code = HTTP_401_UNAUTHORIZED
           \/ reply.status_code = HTTP_200_OK /\ reply.body.json = "object"}
NextContext ==
    \/ \E u \in UrlArgs : init(u, DefaultCacheTtl)
    \/ \E r \in Requests, raw \in RawContextHeaders :
          resolve_dependency(r, "app-1", "key-1", raw)
    \/ \E r \in Requests, reply \in ContextReplies : _dependency_resume(r, reply)
SpecContext == Init /\ [][NextContext]_vars

(***************************************************************************)
(* Superuser authentication (client.py).                                   *)
(***************************************************************************)
\* Claims of a token's payload.  is_superuser is given as JSON text, None when
\* the key is missing: the booleans, and values that are no booleans.
IsSuperuserClaims == {None, "true", "false", "\"yes\"", "1", "0"}
\* sub is a string (jose rejects a token whose sub is no string), None when the
\* key is missing.
SubClaims == {None, "42", "7", "abc", ""}
EmailClaims == {None, "root@example.com"}
Payloads == [is_superuser : IsSuperuserClaims, sub : SubClaims, email : EmailClaims]
\* A token: well formed or not, the key and algorithm it is signed with,
\* whether its exp has passed, its payload.
Garbage ==
    [wellformed |-> FALSE, key |-> None, alg |-> None, expired |-> FALSE,
     payload |-> [is_superuser |-> None, sub |-> None, email |-> None]]
Tokens ==
    {Garbage} \cup [wellformed : {TRUE}, key : {"s3cret", "other"}, alg : {"HS256"},
                    expired : BOOLEAN, payload : Payloads]
\* The Authorization header: `prefix` is its first seven characters (None when
\* the header is absent), `token` what follows them.
AuthorizationHeaders ==
    {[prefix |-> x, token |-> Garbage] : x \in {None, "", "Basic ", "bearer "}}
        \cup {[prefix |-> "Bearer ", token |-> t] : t \in Tokens}
\* The arguments of client.init.
SecretKeys == {"", "s3cret"}
Algorithms == {"HS256", "HS384"}

\* client.init(secret_key, algorithm).
client_init(secret_key, algorithm) ==
    /\ _secret_key' = secret_key
    /\ _algorithm' = algorithm
    /\ UNCHANGED <<_auth_base_url, _http_client, _cache_ttl, env_url, clients, req,
                   sd, now, shutdown_called, call>>

SuperuserUser(user_id, email) == [user_id |-> user_id, email |-> email]
\* What a call ends with: a value returned or an exception raised.
Returned(value) == [result |-> <<value>>, exc |-> <<>>]
Raised(e) == [result |-> <<>>, exc |-> <<e>>]

\* Python truthiness of a JSON value (payload.get("is_superuser", False)).
Truthy(json) == json \notin {None, "false", "0", "null", "\"\""}

\* jose.jwt.decode(token, key, algorithms): the signature is verified first,
\* then the claims (exp).
jwt_decode(token, key, algorithms) ==
    IF ~token.wellformed \/ token.alg \notin algorithms \/ token.key # key
    THEN Raised(Fault("JWTError", "Signature verification failed."))
    ELSE IF token.expired
    THEN Raised(Fault("ExpiredSignatureError", "Signature has expired."))
    ELSE Returned(token.payload)

\* _decode_jwt(token).
_decode_jwt(token) ==
    IF Falsy(_secret_key)
    THEN Raised(HTTPException(HTTP_500_INTERNAL_SERVER_ERROR,
             "jarvis-auth-client not initialized: call init(secret_key=...) at startup"))
    ELSE LET decoded == jwt_decode(token, _secret_key, {_algorithm})
         IN IF decoded.exc = <<>> THEN decoded
            ELSE IF decoded.exc[1].type = "ExpiredSignatureError"
            THEN Raised(HTTPException(HTTP_401_UNAUTHORIZED, "Token has expired"))
            ELSE Raised(HTTPException(HTTP_401_UNAUTHORIZED, "Invalid token"))

\* require_superuser(authorization): what the call ends with.
SuperuserOutcome(authorization) ==
    IF Falsy(authorization.prefix)
    THEN Raised(HTTPException(HTTP_401_UNAUTHORIZED, "Missing Authorization header"))
    ELSE IF authorization.prefix # "Bearer "
    THEN Raised(HTTPException(HTTP_401_UNAUTHORIZED,
             "Invalid Authorization header format. Expected: Bearer <token>"))
    ELSE LET decoded == _decode_jwt(authorization.token)
         IN IF decoded.exc # <<>> THEN decoded
            ELSE LET payload == decoded.result[1]
                     user_id == payload.sub
                 IN IF ~Truthy(payload.is_superuser)
                    THEN Raised(HTTPException(HTTP_403_FORBIDDEN,
                                              "Superuser access required"))
                    ELSE IF Falsy(user_id)
                    THEN Raised(HTTPException(HTTP_401_UNAUTHORIZED,
                                              "Invalid token: missing user ID"))
                    ELSE IF ~IsIntLiteral(user_id)
                    THEN Raised(Fault("ValueError",
                             "invalid literal for int() with base 10: '"
                                 \o user_id \o "'"))
                    ELSE Returned(SuperuserUser(int(user_id), payload.email))

\* A call of require_superuser, with the module state it read.
require_superuser(authorization) ==
    /\ call = NoCall
    /\ LET outcome == SuperuserOutcome(authorization)
       IN call' = [fn |-> "require_superuser", authorization |-> authorization,
                   secret_key |-> _secret_key, algorithm |-> _algorithm,
                   result |-> outcome.result, exc |-> outcome.exc]
    /\ UNCHANGED <<_auth_base_url, _http_client, _cache_ttl, env_url, clients, req,
                   sd, now, shutdown_called, client_vars>>

NextSuperuser ==
    \/ \E k \in SecretKeys, a \in Algorithms : client_init(k, a)
    \/ \E authorization \in AuthorizationHeaders : require_superuser(authorization)
SpecSuperuser == Init /\ [][NextSuperuser]_vars

\* Both modules configured, requests and shutdown calls.
NextFrame ==
    \/ \E u \in UrlArgs, t \in CacheTtls : init(u, t)
    \/ \E k \in SecretKeys, a \in Algorithms : client_init(k, a)
    \/ \E s \in ShutdownCalls : shutdown(s)
    \/ \E s \in ShutdownCalls : shutdown_resume(s)
    \/ \E r \in Requests, i \in {None, "app-1"}, k \in {None, "key-1"} :
          _dependency(r, i, k, NoContextHeaders)
    \/ \E r \in Requests, reply \in ContextReplies : _dependency_resume(r, reply)
SpecFrame == Init /\ [][NextFrame]_vars

(***************************************************************************)
(* The header codec on its own: a sender builds the context headers for a  *)
(* list of member ids, a receiver parses the member-id header.             *)
(***************************************************************************)
\* Longest list of member ids.
MaxMemberIds == 3
\* Member ids: with one digit and with several, zero, trailing zeros.
MemberIdValues == {0, 1, 7, 10, 42}
MemberIdLists == UNION {[1..n -> MemberIdValues] : n \in 0..MaxMemberIds}
UserIds == {<<>>, <<0>>, <<42>>}

InitCodec ==
    /\ InitModules
    /\ call \in {[fn |-> "build_context_headers", pc |-> "args",
                  user_id |-> u, household_member_ids |-> ids,
                  headers |-> NoContextHeaders, parsed |-> <<>>] :
                     u \in UserIds, ids \in MemberIdLists}

\* The sender calls build_context_headers.
sender_builds ==
    /\ call.pc = "args"
    /\ call' = [call EXCEPT !.pc = "built",
                            !.headers = build_context_headers(
                                None, None, call.user_id, call.household_member_ids)]
    /\ UNCHANGED <<_auth_base_url, _http_client, _cache_ttl, env_url, clients, req,
                   sd, now, shutdown_called, client_vars>>

\* The receiver calls parse_household_member_ids on the header it was sent.
receiver_parses ==
    /\ call.pc = "built"
    /\ call' = [call EXCEPT !.pc = "parsed",
                            !.fn = "parse_household_member_ids",
                            !.parsed = parse_household_member_ids(
                                call.headers.x_context_household_member_ids)]
    /\ UNCHANGED <<_auth_base_url, _http_client, _cache_ttl, env_url, clients, req,
                   sd, now, shutdown_called, client_vars>>

NextCodec == sender_builds \/ receiver_parses
SpecCodec == InitCodec /\ [][NextCodec]_vars

(***************************************************************************)
(* Properties.                                                             *)
(***************************************************************************)
\* The request has left the dependency.
Ended(r) == req[r].state \in {"AUTHENTICATED", "REJECTED", "FAULT"}
\* t occurs in s.
Contains(s, t) ==
    \E i \in 1..(Len(s) - Len(t) + 1) : SubSeq(s, i, i + Len(t) - 1) = t
\* The request carries both credential headers.
HasCredentials(r) ==
    /\ req[r].x_jarvis_app_id \notin {None, ""}
    /\ req[r].x_jarvis_app_key \notin {None, ""}
\* The 401 rejection with the given detail.
Unauthorized(detail) ==
    [type |-> "HTTPException", status_code |-> 401, detail |-> detail]

\* AUTHENTICATED: a complete AppAuthResult whose app is the outcome the validator
\* returned, valid, for the call that carried this request's pair.
AuthenticatedComplete(r) ==
    /\ req[r].exc = <<>>
    /\ req[r].calls = 1
    /\ Len(req[r].sent) = 1
    /\ req[r].sent[1].app_id = req[r].x_jarvis_app_id
    /\ req[r].sent[1].app_key = req[r].x_jarvis_app_key
    /\ Len(req[r].reply) = 1
    /\ req[r].reply[1].kind = "response"
    /\ req[r].reply[1].status_code = 200
    /\ Len(req[r].validation) = 1
    /\ req[r].validation[1].valid = TRUE
    /\ Len(req[r].result) = 1
    /\ req[r].result[1].app = req[r].validation[1]
    /\ DOMAIN req[r].result[1].context =
          {"household_id", "node_id", "user_id", "household_member_ids"}
    /\ req[r].result[1].context.household_id = req[r].headers.x_context_household_id
    /\ req[r].result[1].context.node_id = req[r].headers.x_context_node_id
    /\ req[r].result[1].context.user_id = req[r].headers.x_context_user_id

\* REJECTED: a 401 and no result.
RejectedUnauthorized(r) ==
    /\ req[r].result = <<>>
    /\ Len(req[r].exc) = 1
    /\ req[r].exc[1].type = "HTTPException"
    /\ req[r].exc[1].status_code = 401

\* C1 (as stated): every request that has left the dependency is AUTHENTICATED
\* (complete result, app valid, app = the validator's outcome for its own pair)
\* or REJECTED; there is no third ending.
C1_TwoEndingsOnly ==
    \A r \in Requests :
        /\ Ended(r) => req[r].state \in {"AUTHENTICATED", "REJECTED"}
        /\ req[r].state = "AUTHENTICATED" => AuthenticatedComplete(r)
        /\ req[r].state = "REJECTED" => RejectedUnauthorized(r)

\* C1 (amended): every request that has left the dependency is AUTHENTICATED
\* (complete result, app valid, app = the validator's outcome for its own pair),
\* REJECTED with a 401 and no result, or ended by an exception that is no
\* HTTPException (the configuration error, or another fault) and no result;
\* a request that is not AUTHENTICATED has no result at all.
C1_FailClosed ==
    \A r \in Requests :
        /\ req[r].state \in {"idle", "PENDING", "AUTHENTICATED", "REJECTED", "FAULT"}
        /\ req[r].state = "AUTHENTICATED" => AuthenticatedComplete(r)
        /\ req[r].state = "REJECTED" => RejectedUnauthorized(r)
        /\ req[r].state = "FAULT" =>
              /\ req[r].result = <<>>
              /\ Len(req[r].exc) = 1
              /\ req[r].exc[1].type # "HTTPException"
        /\ req[r].state \in {"idle", "PENDING"} =>
              req[r].result = <<>> /\ req[r].exc = <<>>
C1_Witness ==
    \E r \in Requests :
        /\ req[r].state = "AUTHENTICATED"
        /\ req[r].result[1].app.app_id = "app-1"
        /\ req[r].result[1].context.user_id = <<42>>
        /\ req[r].result[1].context.household_member_ids = <<1, 2, 3>>

\* C2: a request whose app-id or app-key header is missing or empty is REJECTED
\* with 401 "Missing app credentials" and issues no outbound call (and creates
\* no client), whatever the configuration is.
C2_MissingCredentialsRejected ==
    \A r \in Requests :
        (/\ req[r].state # "idle"
         /\ \/ req[r].x_jarvis_app_id \in {None, ""}
            \/ req[r].x_jarvis_app_key \in {None, ""})
        => /\ req[r].state = "REJECTED"
           /\ req[r].exc = <<Unauthorized("Missing app credentials")>>
           /\ req[r].calls = 0
           /\ req[r].sent = <<>>
           /\ req[r].created = NoClient
           /\ req[r].result = <<>>
\* A request with an app id and no app key, rejected while no URL is configured.
C2_Witness ==
    \E r \in Requests :
        /\ req[r].state = "REJECTED"
        /\ req[r].x_jarvis_app_id = "app-1"
        /\ req[r].x_jarvis_app_key = None
        /\ req[r].calls = 0
        /\ _auth_base_url = None
        /\ env_url = None

\* C3: the outcome follows the status of the authority's response: 200 (with a
\* JSON object as body) gives valid = true with app_id and name copied from the
\* body and no error; 401 gives valid = false with error "Invalid app
\* credentials"; any other status gives valid = false with an error that
\* contains the status in decimal.
C3_StatusMapping ==
    \A r \in Requests :
        (Len(req[r].reply) = 1 /\ req[r].reply[1].kind = "response") =>
            LET reply == req[r].reply[1]
                code == reply.status_code
            IN /\ (code = 200 /\ reply.body.json = "object") =>
                     req[r].validation =
                        <<[valid |-> TRUE, app_id |-> reply.body.app_id,
                           name |-> reply.body.name, error |-> None]>>
               /\ code = 401 =>
                     req[r].validation =
                        <<[valid |-> FALSE, app_id |-> None, name |-> None,
                           error |-> "Invalid app credentials"]>>
               /\ code \notin {200, 401} =>
                     /\ Len(req[r].validation) = 1
                     /\ req[r].validation[1].valid = FALSE
                     /\ req[r].validation[1].app_id = None
                     /\ req[r].validation[1].name = None
                     /\ Contains(req[r].validation[1].error, ToString(code))
\* One request answered 200 and found valid, another answered 500.
C3_Witness ==
    \E r, q \in Requests :
        /\ Len(req[r].reply) = 1 /\ req[r].reply[1].status_code = 200
        /\ Len(req[r].validation) = 1
        /\ req[r].validation[1].valid /\ req[r].validation[1].name = "svc-one"
        /\ Len(req[q].reply) = 1 /\ req[q].reply[1].status_code = 500
        /\ Len(req[q].validation) = 1

\* C4: a transport failure of the outbound call gives the outcome valid = false
\* with an error that mentions unavailability, nothing is raised out of the
\* validator, and the request is REJECTED with a 401 carrying that error.
C4_TransportFailure ==
    \A r \in Requests :
        (Len(req[r].reply) = 1 /\ req[r].reply[1].kind = "error") =>
            /\ Len(req[r].validation) = 1
            /\ req[r].validation[1].valid = FALSE
            /\ req[r].validation[1].app_id = None
            /\ req[r].validation[1].name = None
            /\ Contains(req[r].validation[1].error, "unavailable")
            /\ req[r].state = "REJECTED"
            /\ req[r].exc = <<Unauthorized(req[r].validation[1].error)>>
            /\ req[r].result = <<>>
\* A request whose outbound call timed out, rejected.
C4_Witness ==
    \E r \in Requests :
        /\ Len(req[r].reply) = 1
        /\ req[r].reply[1].kind = "error"
        /\ req[r].reply[1].exc.type = "ReadTimeout"
        /\ req[r].state = "REJECTED"

\* C5: a request that arrives while a completed (valid) validation of the same
\* pair is younger than cache_ttl is answered without an outbound call; a request with
\* credentials that arrives with no such validation, the URL configured and the
\* shared client usable, issues one.
C5_CachedWithinTtl ==
    \A r \in Requests :
        /\ (req[r].state # "idle" /\ req[r].fresh) => req[r].calls = 0
        /\ (Ended(r) /\ req[r].validation # <<>> /\ ~req[r].fresh) => req[r].calls = 1

\* C6: when neither _auth_base_url nor the environment holds a URL, a request
\* that enters the validator ends with the configuration error (a ValueError, no
\* HTTPException): no outcome, no 401, no outbound call, and the shared client
\* slot and every client are left as they were.
C6_ConfigurationError ==
    [][\A r \in Requests :
          (/\ req[r].state = "idle"
           /\ req'[r].state # "idle"
           /\ req'[r].x_jarvis_app_id \notin {None, ""}
           /\ req'[r].x_jarvis_app_key \notin {None, ""}
           /\ _auth_base_url \in {None, ""}
           /\ env_url \in {None, ""})
          => /\ req'[r].state = "FAULT"
             /\ Len(req'[r].exc) = 1
             /\ req'[r].exc[1].type = "ValueError"
             /\ req'[r].exc[1].status_code # 401
             /\ req'[r].validation = <<>>
             /\ req'[r].result = <<>>
             /\ req'[r].calls = 0
             /\ req'[r].sent = <<>>
             /\ req'[r].created = NoClient
             /\ _http_client' = _http_client
             /\ clients' = clients]_vars
\* A request with credentials ended by the configuration error.
C6_Witness ==
    \E r \in Requests :
        /\ HasCredentials(r)
        /\ req[r].state = "FAULT"
        /\ req[r].exc[1].type = "ValueError"
        /\ req[r].calls = 0

\* C7: when a shutdown() call ends, the shared slot is empty and the client the
\* call found in it is closed; a shutdown() call made while the slot is empty
\* (as it is after a completed call) ends at once and changes nothing.
C7_ShutdownIdempotent ==
    [][\A s \in ShutdownCalls :
          /\ (sd[s].pc # "done" /\ sd'[s].pc = "done") =>
                /\ _http_client' = NoClient
                /\ sd'[s].closing # NoClient => clients'[sd'[s].closing] = "closed"
          /\ (sd[s].pc = "idle" /\ sd'[s].pc # "idle" /\ _http_client = NoClient) =>
                /\ sd'[s].pc = "done"
                /\ UNCHANGED <<_auth_base_url, _http_client, _cache_ttl, env_url,
                               clients, req>>]_vars
\* The first call closed a client, the second found the slot empty; both ended.
C7_Witness ==
    /\ sd[1].pc = "done" /\ sd[1].closing # NoClient
    /\ sd[2].pc = "done" /\ sd[2].closing = NoClient
    /\ clients[sd[1].closing] = "closed"
    /\ _http_client = NoClient

\* C8: a request with credentials that arrives after shutdown() has been called
\* issues no outbound call and creates no client: it ends with the
\* configuration error.
C8_NoRequestAfterShutdown ==
    \A r \in Requests :
        (req[r].state # "idle" /\ req[r].after_shutdown /\ HasCredentials(r)) =>
            /\ req[r].calls = 0
            /\ req[r].created = NoClient
            /\ req[r].state = "FAULT"
            /\ req[r].exc[1].type = "ValueError"

\* C9: no client is leaked: every client that is open is the one in the shared
\* slot (so at most one is open), whatever the interleaving of requests and
\* shutdown() calls.
C9_NoLeak ==
    \A c \in ClientIds : clients[c] = "open" => _http_client = c

\* C10: a request suspended in its outbound call stalls no other request:
\* while it is suspended, the next request can enter the dependency, and, with
\* the URL configured and the shared client not closed, can issue its own
\* outbound call; and any other suspended request can resume with any reply and
\* leave the dependency.
C10_NoStall ==
    \A r, q \in Requests :
        (r # q /\ req[r].state = "PENDING") =>
            /\ (/\ req[q].state = "idle"
                /\ \A p \in Requests : p < q => req[p].state # "idle") =>
                  /\ ENABLED (\E i \in AppIdHeaders, k \in AppKeyHeaders :
                                 _dependency(q, i, k, NoContextHeaders))
                  /\ (/\ ~(_auth_base_url \in {None, ""} /\ env_url \in {None, ""})
                      /\ (_http_client = NoClient \/ clients[_http_client] = "open")) =>
                        ENABLED (/\ _dependency(q, "app-1", "key-1", NoContextHeaders)
                                 /\ req'[q].state = "PENDING"
                                 /\ req'[q].calls = 1
                                 /\ req'[r] = req[r])
            /\ req[q].state = "PENDING" =>
                  \A reply \in Replies :
                      ENABLED (/\ _dependency_resume(q, reply)
                               /\ req'[q].state \in {"AUTHENTICATED", "REJECTED", "FAULT"}
                               /\ req'[r] = req[r])
\* The second request arrived and was authenticated while the first is suspended.
C10_Witness ==
    /\ req[1].state = "PENDING"
    /\ req[2].state = "AUTHENTICATED"
    /\ req[2].calls = 1

\* C12: every AppValidationResult the validator returns is well formed: with
\* valid = true it carries no error; with valid = false it carries neither
\* app_id nor name, and it carries an error text.
C12_OutcomeWellFormed ==
    \A r \in Requests :
        req[r].validation # <<>> =>
            LET v == req[r].validation[1]
            IN /\ v.valid => v.error = None
               /\ ~v.valid => /\ v.app_id = None
                              /\ v.name = None
                              /\ ~Falsy(v.error)
\* Both kinds of outcome have been returned: a valid one that carries app_id and
\* name, and an invalid one for a status that is neither 200 nor 401.
C12_Witness ==
    \E r, q \in Requests :
        /\ req[r].validation # <<>> /\ req[r].validation[1].valid
        /\ req[r].validation[1].app_id = "app-1"
        /\ req[q].validation # <<>> /\ ~req[q].validation[1].valid
        /\ req[q].reply[1].kind = "response"
        /\ req[q].reply[1].status_code = HTTP_500_INTERNAL_SERVER_ERROR

\* C13: an outcome with valid = false ends the request with 401 whose detail is
\* the outcome's error text (the generic "Invalid app credentials" only when
\* the outcome has no error text); the detail of a rejection after a transport
\* failure differs from the detail of a rejection of the credentials.
C13_RejectionDetail ==
    /\ \A r \in Requests :
          (req[r].validation # <<>> /\ ~req[r].validation[1].valid) =>
              /\ req[r].state = "REJECTED"
              /\ req[r].exc =
                     <<Unauthorized(IF Falsy(req[r].validation[1].error)
                                    THEN "Invalid app credentials"
                                    ELSE req[r].validation[1].error)>>
    /\ \A r, q \in Requests :
          (/\ req[r].state = "REJECTED" /\ req[r].reply # <<>>
           /\ req[r].reply[1].kind = "error"
           /\ req[q].state = "REJECTED" /\ req[q].reply # <<>>
           /\ req[q].reply[1].kind = "response"
           /\ req[q].reply[1].status_code = HTTP_401_UNAUTHORIZED) =>
              req[r].exc[1].detail # req[q].exc[1].detail
\* One request is rejected after a timeout and another one because the
\* authority answered 401.
C13_Witness ==
    \E r, q \in Requests :
        /\ req[r].state = "REJECTED" /\ req[r].reply # <<>>
        /\ req[r].reply[1].kind = "error"
        /\ req[r].reply[1].exc.type = "ReadTimeout"
        /\ req[q].state = "REJECTED" /\ req[q].reply # <<>>
        /\ req[q].reply[1].kind = "response"
        /\ req[q].reply[1].status_code = HTTP_401_UNAUTHORIZED

\* C11: every request that entered PENDING eventually reaches AUTHENTICATED or
\* REJECTED: the outbound call comes back within its timeout (a call that
\* exceeds it comes back as a transport failure, i.e. "authority unavailable").
C11_EventuallyResolves ==
    \A r \in Requests :
        (req[r].state = "PENDING") ~> (req[r].state \in {"AUTHENTICATED", "REJECTED"})

\* C14: the member-id header round trip: for a list of non-negative integers,
\* what parse_household_member_ids reads from the header build_context_headers
\* wrote is that list, in order; for the empty list the header is left out, and
\* an absent or empty header decodes to the empty list.
C14_RoundTrip ==
    /\ call.pc = "parsed" => call.parsed = call.household_member_ids
    /\ (call.pc # "args" /\ call.household_member_ids = <<>>) =>
           call.headers.x_context_household_member_ids = None
    /\ parse_household_member_ids(None) = <<>>
    /\ parse_household_member_ids("") = <<>>
\* A list of three ids, of one and of two digits and zero, has made the trip.
C14_Witness ==
    /\ call.pc = "parsed"
    /\ call.household_member_ids = <<10, 0, 42>>
    /\ call.headers.x_context_household_member_ids = "10,0,42"
    /\ call.parsed = <<10, 0, 42>>

\* C15: a member-id header with a segment that is no integer decodes to the
\* empty list (no partial list, no parse error), and the request is not
\* rejected for it: with valid credentials it is authenticated with
\* household_member_ids = [].
C15_MalformedMemberIds ==
    /\ \A v \in MalformedMemberIds : ParsedMemberIds[v] = <<>>
    /\ \A r \in Requests :
          (/\ req[r].headers.x_context_household_member_ids \in MalformedMemberIds
           /\ req[r].validation # <<>>
           /\ req[r].validation[1].valid) =>
              /\ req[r].state = "AUTHENTICATED"
              /\ req[r].result[1].context.household_member_ids = <<>>
\* A request with "1,abc,3" has been authenticated with no member ids, and one
\* with a well-formed header with its member ids.
C15_Witness ==
    \E r, q \in Requests :
        /\ req[r].state = "AUTHENTICATED"
        /\ req[r].headers.x_context_household_member_ids = "1,abc,3"
        /\ req[r].result[1].context.household_member_ids = <<>>
        /\ req[q].state = "AUTHENTICATED"
        /\ req[q].headers.x_context_household_member_ids = "4,5"
        /\ req[q].result[1].context.household_member_ids = <<4, 5>>

\* C16: a malformed X-Context-User-Id is treated as absent: no request is
\* turned away for it, and a request authenticated without context headers
\* gets the defaults (no household, no node, no user, no member ids).
C16_MalformedUserIdAbsent ==
    \A r \in Requests :
        /\ req[r].exc # <<>> => req[r].exc[1].type # "RequestValidationError"
        /\ (req[r].state = "AUTHENTICATED" /\ req[r].headers = NoContextHeaders) =>
               req[r].result[1].context = RequestContext(None, None, <<>>, <<>>)

\* The token of the call is one jwt.decode accepts with the module state read.
Decodable(c) ==
    /\ c.authorization.token.wellformed
    /\ c.authorization.token.key = c.secret_key
    /\ c.authorization.token.alg = c.algorithm
\* The call ended with this HTTP rejection, its detail containing `text`.
Rejected(c, status_code, text) ==
    /\ c.result = <<>>
    /\ c.exc # <<>>
    /\ c.exc[1].type = "HTTPException"
    /\ c.exc[1].status_code = status_code
    /\ Contains(c.exc[1].detail, text)

\* C17: the outcome of require_superuser, for every Authorization header and
\* token: 401 for an absent header or one that does not start with "Bearer ";
\* else 500 "not initialized" with no secret configured; else 401 "expired" for
\* an expired token and 401 for any other token that does not decode; else 403
\* when the claim is_superuser is not true (also when sub is missing); else 401
\* "missing user ID" when sub is missing; else the identity with user_id = sub
\* as an integer and the token's email.
C17_SuperuserOutcome ==
    call.fn = "require_superuser" =>
        LET payload == call.authorization.token.payload
        IN IF Falsy(call.authorization.prefix) \/ call.authorization.prefix # "Bearer "
           THEN Rejected(call, HTTP_401_UNAUTHORIZED, "")
           ELSE IF Falsy(call.secret_key)
           THEN Rejected(call, HTTP_500_INTERNAL_SERVER_ERROR, "not initialized")
           ELSE IF Decodable(call) /\ call.authorization.token.expired
           THEN Rejected(call, HTTP_401_UNAUTHORIZED, "expired")
           ELSE IF ~Decodable(call)
           THEN Rejected(call, HTTP_401_UNAUTHORIZED, "")
           ELSE IF payload.is_superuser # "true"
           THEN Rejected(call, HTTP_403_FORBIDDEN, "")
           ELSE IF Falsy(payload.sub)
           THEN Rejected(call, HTTP_401_UNAUTHORIZED, "missing user ID")
           ELSE /\ IsIntLiteral(payload.sub)
                /\ call.exc = <<>>
                /\ call.result = <<SuperuserUser(int(payload.sub), payload.email)>>

\* A step of a request or of a shutdown call.
RequestOrShutdownStep == req' # req \/ sd' # sd
\* No inbound header of a request that has arrived is changed.
HeadersKept ==
    \A r \in Requests :
        req[r].state # "idle" =>
            /\ req'[r].x_jarvis_app_id = req[r].x_jarvis_app_id
            /\ req'[r].x_jarvis_app_key = req[r].x_jarvis_app_key
            /\ req'[r].headers = req[r].headers
\* Requests and shutdown write no configuration: the authority URL, the cache
\* TTL, the environment, the JWT secret and algorithm stay as they are.
ConfigKept == RequestOrShutdownStep => UNCHANGED <<config_vars, client_vars>>

\* C18 as stated: a request that carries both credential headers issues
\* exactly one outbound call; no inbound header is changed; requests and
\* shutdown leave the configuration unchanged.
C18_ExactlyOneCall ==
    [][/\ \A r \in Requests :
             (Ended(r) /\ HasCredentials(r))' => req'[r].calls = 1
       /\ HeadersKept
       /\ ConfigKept]_vars
\* C18, amended: a request issues at most one outbound call, none repeated;
\* one that carries both credential headers ends with exactly one call issued,
\* except that it ends with none when the validator raised before the call
\* (no authority URL configured, or the shared client closed already); no
\* inbound header is changed; requests and shutdown leave the configuration
\* unchanged.
C18_Frame ==
    [][/\ \A r \in Requests :
             /\ req'[r].calls \in {req[r].calls, req[r].calls + 1}
             /\ req'[r].calls <= 1
             /\ (Ended(r) /\ HasCredentials(r))' =>
                    req'[r].calls = IF req'[r].exc \in {<<NotInitialized>>, <<ClientClosed>>}
                                    THEN 0 ELSE 1
       /\ HeadersKept
       /\ ConfigKept]_vars
\* With both modules configured, a request with both credentials has ended
\* after its one call, another one with no call on a closed client, and a
\* shutdown has completed.
C18_Witness ==
    /\ _secret_key = "s3cret"
    /\ _auth_base_url = "http://auth"
    /\ \E s \in ShutdownCalls : sd[s].pc = "done" /\ sd[s].closing # NoClient
    /\ \E r, q \in Requests :
          /\ req[r].state = "AUTHENTICATED" /\ req[r].calls = 1
          /\ req[q].state = "FAULT" /\ req[q].calls = 0
          /\ req[q].exc = <<ClientClosed>>

\* C19: with the authority URL configured, validate_app_credentials ends by
\* returning an AppValidationResult and never by raising, whatever the
\* authority answers and whatever shutdown() does to the shared client; so a
\* request that carries both credentials ends AUTHENTICATED or rejected with 401.
C19_ValidatorNeverRaises ==
    \A r \in Requests :
        (Ended(r) /\ HasCredentials(r) /\ req[r].exc # <<NotInitialized>>) =>
            /\ req[r].validation # <<>>
            /\ \/ req[r].state = "AUTHENTICATED"
               \/ /\ req[r].state = "REJECTED"
                  /\ req[r].exc[1].status_code = HTTP_401_UNAUTHORIZED

\* C20: require_superuser returns an identity only for a token whose
\* is_superuser is the boolean true and whose sub is present and converts to an
\* integer; every other call ends with an HTTP rejection (401, 403 or 500): a
\* truthy is_superuser that is no boolean is rejected with 403, a sub that is
\* no integer with 401.
C20_IdentityOnlyForSuperuser ==
    call.fn = "require_superuser" =>
        LET payload == call.authorization.token.payload
        IN /\ call.result # <<>> =>
                 /\ payload.is_superuser = "true"
                 /\ ~Falsy(payload.sub)
                 /\ IsIntLiteral(payload.sub)
           /\ call.result = <<>> =>
                 /\ call.exc # <<>>
                 /\ call.exc[1].type = "HTTPException"
                 /\ call.exc[1].status_code \in
                        {HTTP_401_UNAUTHORIZED, HTTP_403_FORBIDDEN,
                         HTTP_500_INTERNAL_SERVER_ERROR}

====
